---- MODULE Spec2Model ----
(***************************************************************************)
(* Model of the pomodoro timer's control loop (src/src/main.rs): the       *)
(* StateMachine and Interval types, the key listener thread with its mpsc  *)
(* channel, and one action per iteration of the loop in main.              *)
(* Time is counted in milliseconds.                                        *)
(***************************************************************************)
EXTENDS Integers, Sequences, FiniteSets, TLC

VARIABLES
    state_machine,      \* StateMachine {pomodoro_count, break_count, max_pomodoros, mode}
    interval,           \* Interval {elapsed, duration}
    paused,             \* main: let mut paused
    acked,              \* main: let mut acked
    pomodoro_duration,  \* main: pomodoro_duration (seconds)
    break_duration,     \* main: break_duration (seconds)
    queue,              \* events sent on tx and not yet received on rx
    listener,           \* the key thread: "reading", "done" (input over, tx dropped)
                        \* or "stopped" (left the loop on a failed send)
    pc,                 \* main: "running" (in the loop), "exited" (after break), "panicked"
    recv,               \* result of the last rx.recv_timeout
    played,             \* whether the last iteration started playback of the gong
    cursor,             \* the terminal's cursor: "hidden" (cursor::Hide) or "shown" (cursor::Show)
    sent_in,            \* history: for each queued event, the mode when it was sent
    recv_sent_in        \* history: the mode when the last received event was sent

vars == <<state_machine, interval, paused, acked, pomodoro_duration,
          break_duration, queue, listener, pc, recv, played, cursor,
          sent_in, recv_sent_in>>

\* ---------------------------------------------------------------- bounds
MaxQueue == 2
MaxDuration == 1
MaxPomodoros == 2
DtStep == 30000
MaxDtSteps == 2

\* ---------------------------------------------------------------- types
Modes == {"EnteringPomodoro", "Pomodoro", "PomodoroEnded",
          "EnteringBreak", "Break", "BreakEnded", "End"}

\* termion Key values the match in main distinguishes; "x" is any other key
Keys == {"q", "ctrl_c", "p", "x"}

\* ---------------------------------------------------------------- StateMachine
new(max) ==
    [pomodoro_count |-> 1, break_count |-> 1, max_pomodoros |-> max, mode |-> "Pomodoro"]

\* variant: the counter steps by two
Inc_ByTwo(c) == (c + 2) % 256

\* u8 += 1 (wraps at 256 in a release build)
Inc(c) == (c + 1) % 256

\* variant: the session is done once the count has reached or passed the maximum
next_state_GeMax(sm) ==
    CASE sm.mode = "EnteringPomodoro" -> [sm EXCEPT !.mode = "Pomodoro"]
      [] sm.mode = "Pomodoro" ->
            IF sm.pomodoro_count >= sm.max_pomodoros
            THEN [sm EXCEPT !.mode = "End"]
            ELSE [sm EXCEPT !.mode = "PomodoroEnded"]
      [] sm.mode = "PomodoroEnded" ->
            [sm EXCEPT !.pomodoro_count = Inc(@), !.mode = "EnteringBreak"]
      [] sm.mode = "EnteringBreak" -> [sm EXCEPT !.mode = "Break"]
      [] sm.mode = "Break" -> [sm EXCEPT !.mode = "BreakEnded"]
      [] sm.mode = "BreakEnded" ->
            [sm EXCEPT !.break_count = Inc(@), !.mode = "EnteringPomodoro"]
      [] sm.mode = "End" -> sm

next_state(sm) ==
    CASE sm.mode = "EnteringPomodoro" -> [sm EXCEPT !.mode = "Pomodoro"]
      [] sm.mode = "Pomodoro" ->
            IF sm.pomodoro_count = sm.max_pomodoros
            THEN [sm EXCEPT !.mode = "End"]
            ELSE [sm EXCEPT !.mode = "PomodoroEnded"]
      [] sm.mode = "PomodoroEnded" ->
            [sm EXCEPT !.pomodoro_count = Inc(@), !.mode = "EnteringBreak"]
      [] sm.mode = "EnteringBreak" -> [sm EXCEPT !.mode = "Break"]
      [] sm.mode = "Break" -> [sm EXCEPT !.mode = "BreakEnded"]
      [] sm.mode = "BreakEnded" ->
            [sm EXCEPT !.break_count = Inc(@), !.mode = "EnteringPomodoro"]
      [] sm.mode = "End" -> sm

\* ---------------------------------------------------------------- Interval
from_secs(secs) == [elapsed |-> 0, duration |-> secs * 1000]

\* variant: the boundary elapsed = duration does not end the interval
has_ended_Strict(i) == i.elapsed > i.duration

has_ended(i) == i.elapsed >= i.duration

sub_assign(i, rhs) == [i EXCEPT !.elapsed = @ + rhs]

\* ---------------------------------------------------------------- main: one iteration
\* rx.recv_timeout(500ms): the oldest queued event, else Disconnected when
\* the sender is gone, else Timeout
recv_timeout(q, l) ==
    IF Len(q) > 0 THEN Head(q)
    ELSE IF l = "done" THEN "Disconnected" ELSE "Timeout"

\* start.elapsed(): the time the iteration has taken, sampled on a grid of
\* DtStep ms; a timeout has waited at least the full 500 ms
StartElapsed(ev) ==
    {d \in {k * DtStep : k \in 0..MaxDtSteps} : ev = "Timeout" => d >= 500}

\* variant: without the arm for Mode::End
RecvArm_NoEndArm(ev, mode) ==
    CASE ev \in Keys /\ mode = "PomodoroEnded" -> "ack"
      [] ev \in Keys /\ mode = "BreakEnded" -> "ack"
      [] ev \in {"q", "ctrl_c"} -> "break"
      [] ev = "p" -> "pause"
      [] ev = "Disconnected" -> "report"
      [] OTHER -> "none"

\* variant: the arm for Mode::End comes after the quit and pause arms
RecvArm_EndArmLast(ev, mode) ==
    CASE ev \in Keys /\ mode = "PomodoroEnded" -> "ack"
      [] ev \in Keys /\ mode = "BreakEnded" -> "ack"
      [] ev \in {"q", "ctrl_c"} -> "break"
      [] ev = "p" -> "pause"
      [] ev \in Keys /\ mode = "End" -> "break"
      [] ev = "Disconnected" -> "report"
      [] OTHER -> "none"

\* variant: the pause arm comes first
RecvArm_PauseFirst(ev, mode) ==
    CASE ev = "p" -> "pause"
      [] ev \in Keys /\ mode = "PomodoroEnded" -> "ack"
      [] ev \in Keys /\ mode = "BreakEnded" -> "ack"
      [] ev \in Keys /\ mode = "End" -> "break"
      [] ev \in {"q", "ctrl_c"} -> "break"
      [] ev = "Disconnected" -> "report"
      [] OTHER -> "none"

\* variant: a key other than quit and pause acknowledges in every mode
RecvArm_AckAnyMode(ev, mode) ==
    CASE ev \in Keys /\ mode = "PomodoroEnded" -> "ack"
      [] ev \in Keys /\ mode = "BreakEnded" -> "ack"
      [] ev \in Keys /\ mode = "End" -> "break"
      [] ev \in {"q", "ctrl_c"} -> "break"
      [] ev = "p" -> "pause"
      [] ev \in Keys -> "ack"
      [] ev = "Disconnected" -> "report"
      [] OTHER -> "none"

\* the match on the received event: which arm runs
RecvArm(ev, mode) ==
    CASE ev \in Keys /\ mode = "PomodoroEnded" -> "ack"
      [] ev \in Keys /\ mode = "BreakEnded" -> "ack"
      [] ev \in Keys /\ mode = "End" -> "break"
      [] ev \in {"q", "ctrl_c"} -> "break"
      [] ev = "p" -> "pause"
      [] ev = "Disconnected" -> "report"
      [] OTHER -> "none"

\* variant: the pause flag is not consulted
Accumulate_IgnorePause(i, p, mode, dt) ==
    IF mode \in {"Pomodoro", "Break"} THEN sub_assign(i, dt) ELSE i

\* variant: the test of the pause flag is inverted
Accumulate_WhilePaused(i, p, mode, dt) ==
    IF p /\ mode \in {"Pomodoro", "Break"} THEN sub_assign(i, dt) ELSE i

\* if !paused && (mode == Pomodoro || mode == Break) { interval -= start.elapsed() }
Accumulate(i, p, mode, dt) ==
    IF ~p /\ mode \in {"Pomodoro", "Break"} THEN sub_assign(i, dt) ELSE i

\* variant: the ended phases advance without an acknowledgment
TransitionArm_NoAckGuard(mode, i, a) ==
    CASE mode = "EnteringPomodoro" -> "EnteringPomodoro"
      [] mode = "Pomodoro" /\ has_ended(i) -> "Pomodoro"
      [] mode = "PomodoroEnded" -> "PomodoroEnded"
      [] mode = "EnteringBreak" -> "EnteringBreak"
      [] mode = "Break" /\ has_ended(i) -> "Break"
      [] mode = "BreakEnded" -> "BreakEnded"
      [] OTHER -> "_"

\* the match that applies the transition: which arm runs ("_" is the wildcard)
TransitionArm(mode, i, a) ==
    CASE mode = "EnteringPomodoro" -> "EnteringPomodoro"
      [] mode = "Pomodoro" /\ has_ended(i) -> "Pomodoro"
      [] mode = "PomodoroEnded" /\ a -> "PomodoroEnded"
      [] mode = "EnteringBreak" -> "EnteringBreak"
      [] mode = "Break" /\ has_ended(i) -> "Break"
      [] mode = "BreakEnded" /\ a -> "BreakEnded"
      [] OTHER -> "_"

\* variant: the gong is also played when an ended phase is acknowledged
Transition_GongOnAck(sm, i, a, pd, bd, audio_ok) ==
    LET same == [sm |-> sm, interval |-> i, acked |-> a, sound |-> FALSE, panic |-> FALSE]
        gong == IF audio_ok
                THEN [same EXCEPT !.sm = next_state(sm), !.sound = TRUE]
                ELSE [same EXCEPT !.panic = TRUE]
        arm  == TransitionArm(sm.mode, i, a)
    IN  CASE arm = "EnteringPomodoro" ->
                [same EXCEPT !.interval = from_secs(pd), !.sm = next_state(sm)]
          [] arm = "Pomodoro" -> gong
          [] arm = "PomodoroEnded" -> [gong EXCEPT !.acked = FALSE]
          [] arm = "EnteringBreak" ->
                [same EXCEPT !.interval = from_secs(bd), !.sm = next_state(sm)]
          [] arm = "Break" -> gong
          [] arm = "BreakEnded" -> [gong EXCEPT !.acked = FALSE]
          [] OTHER -> same

\* the body of the arm that runs; sound: play_raw() is reached; panic: an
\* unwrap() in play_sound() panicked, which stops the arm before next_state()
Transition(sm, i, a, pd, bd, audio_ok) ==
    LET same == [sm |-> sm, interval |-> i, acked |-> a, sound |-> FALSE, panic |-> FALSE]
        gong == IF audio_ok
                THEN [same EXCEPT !.sm = next_state(sm), !.sound = TRUE]
                ELSE [same EXCEPT !.panic = TRUE]
        arm  == TransitionArm(sm.mode, i, a)
    IN  CASE arm = "EnteringPomodoro" ->
                [same EXCEPT !.interval = from_secs(pd), !.sm = next_state(sm)]
          [] arm = "Pomodoro" -> gong
          [] arm = "PomodoroEnded" ->
                [same EXCEPT !.acked = FALSE, !.sm = next_state(sm)]
          [] arm = "EnteringBreak" ->
                [same EXCEPT !.interval = from_secs(bd), !.sm = next_state(sm)]
          [] arm = "Break" -> gong
          [] arm = "BreakEnded" ->
                [same EXCEPT !.acked = FALSE, !.sm = next_state(sm)]
          [] OTHER -> same

\* the match that writes the status line ends in `_ => unreachable!()`
RenderPanics(mode) == mode \notin {"Pomodoro", "Break", "PomodoroEnded", "BreakEnded", "End"}

Tick ==
    /\ pc = "running"
    /\ LET ev == recv_timeout(queue, listener)
           arm == RecvArm(ev, state_machine.mode)
       IN
       /\ recv' = ev
       /\ queue' = IF Len(queue) > 0 THEN Tail(queue) ELSE queue
       /\ sent_in' = IF Len(queue) > 0 THEN Tail(sent_in) ELSE sent_in
       /\ recv_sent_in' = IF Len(queue) > 0 THEN Head(sent_in) ELSE "none"
       /\ UNCHANGED <<pomodoro_duration, break_duration, listener>>
       /\ IF arm = "break"
          THEN /\ pc' = "exited"
               /\ played' = FALSE
               /\ cursor' = "shown"
               /\ UNCHANGED <<state_machine, interval, paused, acked>>
          ELSE \E dt \in StartElapsed(ev), audio_ok \in BOOLEAN :
               LET p1 == IF arm = "pause" THEN ~paused ELSE paused
                   a1 == IF arm = "ack" THEN TRUE ELSE acked
                   i1 == Accumulate(interval, p1, state_machine.mode, dt)
                   t  == Transition(state_machine, i1, a1,
                                    pomodoro_duration, break_duration, audio_ok)
               IN /\ paused' = p1
                  /\ state_machine' = t.sm
                  /\ interval' = t.interval
                  /\ acked' = t.acked
                  /\ played' = t.sound
                  /\ pc' = IF t.panic \/ RenderPanics(t.sm.mode)
                           THEN "panicked" ELSE "running"
                  /\ cursor' = cursor

\* ---------------------------------------------------------------- the key thread
\* variant: a send still delivers after main has dropped rx
ListenerSend_IgnoresDrop ==
    /\ listener = "reading"
    /\ Len(queue) < MaxQueue
    /\ \E k \in Keys : queue' = Append(queue, k)
    /\ sent_in' = Append(sent_in, state_machine.mode)
    /\ UNCHANGED <<state_machine, interval, paused, acked, pomodoro_duration,
                   break_duration, listener, pc, recv, played, cursor, recv_sent_in>>

\* tx.send(Event::Key(c)) succeeds while rx is alive
ListenerSend ==
    /\ listener = "reading"
    /\ pc = "running"
    /\ Len(queue) < MaxQueue
    /\ \E k \in Keys : queue' = Append(queue, k)
    /\ sent_in' = Append(sent_in, state_machine.mode)
    /\ UNCHANGED <<state_machine, interval, paused, acked, pomodoro_duration,
                   break_duration, listener, pc, recv, played, cursor, recv_sent_in>>

\* tx.send(..).is_err() once main has dropped rx: break
ListenerSendFail ==
    /\ listener = "reading"
    /\ pc # "running"
    /\ listener' = "stopped"
    /\ UNCHANGED <<state_machine, interval, paused, acked, pomodoro_duration,
                   break_duration, queue, pc, recv, played, cursor,
                   sent_in, recv_sent_in>>

\* stdin.keys() ends (end of input) or c.unwrap() panics: tx is dropped
ListenerEnd ==
    /\ listener = "reading"
    /\ pc = "running"
    /\ listener' = "done"
    /\ UNCHANGED <<state_machine, interval, paused, acked, pomodoro_duration,
                   break_duration, queue, pc, recv, played, cursor,
                   sent_in, recv_sent_in>>

\* ---------------------------------------------------------------- specification
Init ==
    /\ \E pd \in 0..MaxDuration : pomodoro_duration = pd * 60
    /\ \E bd \in 0..MaxDuration : break_duration = bd * 60
    /\ \E m \in 0..MaxPomodoros : state_machine = new(m)
    /\ interval = from_secs(pomodoro_duration)
    /\ paused = FALSE
    /\ acked = FALSE
    /\ queue = <<>>
    /\ listener = "reading"
    /\ pc = "running"
    /\ recv = "none"
    /\ played = FALSE
    /\ cursor = "hidden"
    /\ sent_in = <<>>
    /\ recv_sent_in = "none"

Next == Tick \/ ListenerSend \/ ListenerSendFail \/ ListenerEnd

Spec == Init /\ [][Next]_vars

\* the key thread blocked in stdin.keys() gets another key, so its next
\* send attempt eventually happens
LiveSpec == Spec /\ WF_vars(ListenerSendFail)

TypeOK ==
    /\ state_machine.mode \in Modes
    /\ state_machine.pomodoro_count \in 0..255
    /\ state_machine.break_count \in 0..255
    /\ interval.elapsed \in Nat /\ interval.duration \in Nat
    /\ paused \in BOOLEAN /\ acked \in BOOLEAN /\ played \in BOOLEAN
    /\ pc \in {"running", "exited", "panicked"}
    /\ listener \in {"reading", "done", "stopped"}
    /\ recv \in Keys \cup {"Timeout", "Disconnected", "none"}
    /\ Len(queue) <= MaxQueue
    /\ cursor \in {"hidden", "shown"}
    /\ Len(sent_in) = Len(queue)
    /\ recv_sent_in \in Modes \cup {"none"}

\* ---------------------------------------------------------------- claims
Timed == {"Pomodoro", "Break"}
AwaitingAck == {"PomodoroEnded", "BreakEnded"}
QuitKeys == {"q", "ctrl_c"}

\* C1: while the mode is PomodoroEnded or BreakEnded, a step changes the
\* mode, a counter or the interval only if it is an iteration of the loop
\* that received a key event; iterations without a key leave them unchanged.
C1_AckRequired ==
    [][state_machine.mode \in AwaitingAck
         /\ (state_machine' # state_machine \/ interval' # interval)
       => Tick /\ recv' \in Keys]_vars

\* an iteration that timed out has run while waiting for the acknowledgment
C1_Witness ==
    /\ state_machine.mode = "PomodoroEnded"
    /\ pc = "running"
    /\ recv = "Timeout"
    /\ ~played

\* C2: an iteration that receives 'q' or Ctrl-C ends the loop in that
\* iteration whatever the mode, with the state machine unchanged and no sound.
C2_QuitEndsLoop ==
    [][Tick /\ recv' \in QuitKeys
       => pc' = "exited" /\ state_machine' = state_machine /\ ~played']_vars

\* C3: an iteration whose poll reports the closed channel leaves the loop.
C3_DisconnectExits ==
    [][Tick /\ recv' = "Disconnected" => pc' # "running"]_vars

\* C4: an iteration that ends with paused set leaves elapsed unchanged;
\* elapsed never decreases, and it grows only in an iteration that ends with
\* paused clear and started in mode Pomodoro or Break.
C4_PauseFreezes ==
    [][/\ paused' => interval'.elapsed = interval.elapsed
       /\ interval'.elapsed >= interval.elapsed
       /\ interval'.elapsed > interval.elapsed
            => Tick /\ ~paused' /\ state_machine.mode \in Timed]_vars

\* an iteration has waited out the full timeout with paused set, after time
\* had been accumulated
C4_Witness ==
    /\ paused
    /\ recv = "Timeout"
    /\ state_machine.mode = "Pomodoro"
    /\ interval.elapsed > 0
    /\ pc = "running"

\* C5: an iteration that starts in Pomodoro or Break and evaluates the
\* interval (it did not receive a quit key) stops running that interval if
\* and only if the accumulated elapsed time has reached the duration,
\* equality included; a duration of 0 is reached in the first iteration.
C5_EndsAtFirstReach ==
    [][Tick /\ state_machine.mode \in Timed /\ recv' \notin QuitKeys
       => ((pc' # "running" \/ state_machine'.mode # state_machine.mode)
             <=> interval'.elapsed >= interval'.duration)]_vars

\* a non-zero interval was left in the iteration where elapsed = duration
C5_Witness ==
    /\ played
    /\ state_machine.mode \in {"PomodoroEnded", "End"}
    /\ interval.duration > 0
    /\ interval.elapsed = interval.duration

\* C6: a step out of Pomodoro goes to End when pomodoro_count equals
\* max_pomodoros and to PomodoroEnded otherwise; End is entered only so.
C6_EndIffMax ==
    [][/\ state_machine.mode = "Pomodoro" /\ state_machine'.mode # "Pomodoro"
            => state_machine'.mode =
                 (IF state_machine.pomodoro_count = state_machine.max_pomodoros
                  THEN "End" ELSE "PomodoroEnded")
       /\ state_machine'.mode = "End" /\ state_machine.mode # "End"
            => /\ state_machine.mode = "Pomodoro"
               /\ state_machine.pomodoro_count = state_machine.max_pomodoros]_vars

\* the only focus interval of a session has just ended
C6_Witness ==
    /\ played
    /\ state_machine.mode = "End"
    /\ state_machine.pomodoro_count = state_machine.max_pomodoros

\* C7: pomodoro_count changes only by +1 and only in the acknowledged step
\* out of PomodoroEnded, which always changes it; break_count likewise for
\* BreakEnded; neither counter decreases.
C7_CountersStep ==
    [][/\ state_machine'.pomodoro_count # state_machine.pomodoro_count
            => /\ state_machine'.pomodoro_count = state_machine.pomodoro_count + 1
               /\ state_machine.mode = "PomodoroEnded"
               /\ state_machine'.mode # "PomodoroEnded"
               /\ recv' \in Keys
       /\ state_machine.mode = "PomodoroEnded" /\ state_machine'.mode # "PomodoroEnded"
            => state_machine'.pomodoro_count = state_machine.pomodoro_count + 1
       /\ state_machine'.break_count # state_machine.break_count
            => /\ state_machine'.break_count = state_machine.break_count + 1
               /\ state_machine.mode = "BreakEnded"
               /\ state_machine'.mode # "BreakEnded"
               /\ recv' \in Keys
       /\ state_machine.mode = "BreakEnded" /\ state_machine'.mode # "BreakEnded"
            => state_machine'.break_count = state_machine.break_count + 1]_vars

\* the first focus interval has been acknowledged
C7_Witness ==
    /\ state_machine.pomodoro_count = 2
    /\ state_machine.mode = "EnteringBreak"
    /\ recv \in Keys

\* C8: with max_pomodoros = 2, once the first focus interval has been
\* acknowledged (pomodoro_count = 2) and until the break is acknowledged,
\* the loop has not aborted and the session is in its break with an interval
\* of the break duration.
C8_EndToEndMax2 ==
    state_machine.max_pomodoros = 2
      /\ state_machine.pomodoro_count = 2
      /\ state_machine.break_count = 1
    => /\ pc # "panicked"
       /\ state_machine.mode \in {"Break", "BreakEnded"}
       /\ interval.duration = break_duration * 1000

\* C9 as stated: with max_pomodoros = 1 the step out of Pomodoro goes to
\* PomodoroEnded with the sound played.
C9_Max1ViaPomodoroEnded ==
    [][state_machine.max_pomodoros = 1
         /\ state_machine.mode = "Pomodoro" /\ state_machine'.mode # "Pomodoro"
       => state_machine'.mode = "PomodoroEnded" /\ played']_vars

\* C9 amended: with max_pomodoros = 1 the step out of Pomodoro goes straight
\* to End with the sound played, PomodoroEnded is never entered, and an
\* iteration that receives any key in End ends the loop.
C9_Max1StraightToEnd ==
    [][state_machine.max_pomodoros = 1
       => /\ state_machine.mode = "Pomodoro" /\ state_machine'.mode # "Pomodoro"
               => state_machine'.mode = "End" /\ played'
          /\ state_machine'.mode # "PomodoroEnded"
          /\ Tick /\ state_machine.mode = "End" /\ recv' \in Keys
               => pc' = "exited"]_vars

\* a key other than quit has ended the loop of a one-pomodoro session in End
C9_Witness ==
    /\ state_machine.max_pomodoros = 1
    /\ state_machine.mode = "End"
    /\ pc = "exited"
    /\ recv \in {"p", "x"}

\* C10: an iteration starts playback of the sound if and only if it takes
\* the step out of Pomodoro or Break.
C10_SoundIffIntervalEnds ==
    [][Tick => (played' <=> /\ state_machine.mode \in Timed
                            /\ state_machine'.mode \notin Timed)]_vars

\* the acknowledgment of an ended focus interval has run, without a sound
C10_Witness ==
    /\ state_machine.mode = "EnteringBreak"
    /\ state_machine.pomodoro_count = 2
    /\ ~played

\* C11: whenever the control loop has stopped running, by whatever path,
\* the cursor has been shown again.
C11_CursorRestored == pc # "running" => cursor = "shown"

\* C12: an iteration that finds a running interval ended takes the
\* transition out of it and the loop keeps running, whether or not the
\* audio device and the decoder are available.
C12_PlaybackFailureNonFatal ==
    [][Tick /\ state_machine.mode \in Timed /\ recv' \notin QuitKeys
         /\ interval'.elapsed >= interval'.duration
       => pc' = "running" /\ state_machine'.mode \notin Timed]_vars

\* C13: an iteration that starts in End leaves the state machine and the
\* interval unchanged; it ends the loop if it received a key of any kind and
\* keeps the loop running otherwise.
C13_EndWaitsForKey ==
    [][Tick /\ state_machine.mode = "End"
       => /\ state_machine' = state_machine
          /\ interval' = interval
          /\ pc' = (IF recv' \in Keys THEN "exited" ELSE "running")]_vars

\* the 'p' key has ended the loop in End
C13_Witness ==
    /\ state_machine.mode = "End"
    /\ pc = "exited"
    /\ recv = "p"
    /\ cursor = "shown"

\* C14: paused changes only in an iteration that receives 'p' while the mode
\* is Pomodoro or Break, and every such iteration flips it.
C14_PauseOnlyInTimed ==
    [][/\ paused' # paused
            => Tick /\ recv' = "p" /\ state_machine.mode \in Timed
       /\ Tick /\ recv' = "p" /\ state_machine.mode \in Timed
            => paused' = ~paused]_vars

\* 'p' was received in PomodoroEnded with paused set, and paused is still set
C14_Witness ==
    /\ recv = "p"
    /\ state_machine.mode = "EnteringBreak"
    /\ paused

\* C15: an iteration that receives 'p' while the mode is PomodoroEnded or
\* BreakEnded leaves the mode and the counters unchanged.
C15_PauseKeyIsNoAck ==
    [][Tick /\ recv' = "p" /\ state_machine.mode \in AwaitingAck
       => state_machine' = state_machine]_vars

\* C17: no iteration ends with the mode EnteringPomodoro or EnteringBreak,
\* the modes for which the render match has no arm.
C17_RenderModeDisplayable ==
    state_machine.mode \notin {"EnteringPomodoro", "EnteringBreak"}

\* C18 as stated: paused is set only while the mode is Pomodoro or Break.
C18_PausedImpliesTimed == paused => state_machine.mode \in Timed

\* C18 amended: paused is set outside Pomodoro and Break only when the
\* interval that ended has duration 0.
C18_PausedImpliesTimedOrZero ==
    paused => (state_machine.mode \in Timed \/ interval.duration = 0)

\* an iteration has set paused on an interval of non-zero duration that had
\* already accumulated time, and the interval is still running
C18_Witness ==
    /\ paused
    /\ recv = "p"
    /\ state_machine.mode = "Pomodoro"
    /\ interval.duration > 0
    /\ interval.elapsed > 0

\* C20: pomodoro_count never exceeds max(1, max_pomodoros).
C20_CountWithinMax ==
    state_machine.pomodoro_count <=
        (IF state_machine.max_pomodoros > 1 THEN state_machine.max_pomodoros ELSE 1)

\* C16: once the control loop has left the loop (rx released) nothing more
\* is delivered on the channel, and a key thread that is still reading
\* eventually stops on its failed send.
C16_ListenerStops ==
    /\ [][pc # "running" => queue' = queue]_vars
    /\ (pc # "running" /\ listener = "reading") ~> (listener = "stopped")

\* the key thread has stopped on a failed send after the loop was quit
C16_Witness ==
    /\ pc = "exited"
    /\ listener = "stopped"

\* C19 as stated: the event received by the iteration that leaves
\* PomodoroEnded or BreakEnded was not sent while the mode was Pomodoro or
\* Break.
C19_NoTypeAheadAck ==
    [][state_machine.mode \in AwaitingAck /\ state_machine'.mode \notin AwaitingAck
       => recv_sent_in' \notin Timed]_vars

\* C19 amended: the iteration that leaves PomodoroEnded or BreakEnded
\* started in that mode and received the oldest queued event, whenever that
\* was sent; and an event received while the mode is Pomodoro or Break is
\* not remembered as an acknowledgment and changes no counter.
C19_AckClassifiedAtReceive ==
    [][/\ state_machine.mode \in AwaitingAck /\ state_machine'.mode \notin AwaitingAck
            => /\ Len(queue) > 0
               /\ recv' = Head(queue)
               /\ queue' = Tail(queue)
       /\ Tick /\ state_machine.mode \in Timed
            => /\ ~acked'
               /\ state_machine'.pomodoro_count = state_machine.pomodoro_count
               /\ state_machine'.break_count = state_machine.break_count]_vars

\* a key sent while the focus interval was running has acknowledged its end
C19_Witness ==
    /\ recv_sent_in = "Pomodoro"
    /\ state_machine.mode = "EnteringBreak"
    /\ state_machine.pomodoro_count = 2

====
